---- MODULE Spec2Model ----
(***************************************************************************)
(* The lock-free single-producer single-consumer queue spscq of            *)
(* include/spscq.hpp: run-time sized slot storage, two atomic cursors,     *)
(* two cursor caches, placement-constructed slots.                         *)
(*                                                                         *)
(* The steps of try_emplace, try_pop and ~spscq are pure operators on a    *)
(* record of the queue's fields and the two threads' locals; the actions   *)
(* apply them to the variables.  A step is one access to a cross-thread    *)
(* atomic or to a slot, together with the thread-local code around it.     *)
(***************************************************************************)
EXTENDS Integers, Sequences, FiniteSets, TLC

\* ------------------------------------------------------------ bounds
MaxSize == 4    \* storage sizes 0..MaxSize are constructed
MaxPush == 5    \* successful pushes per run
MaxObserved == 3    \* successful pushes of a run in which a third thread calls size()
MaxLog == 3     \* rbuffer sizes are the powers of two up to 2^MaxLog

\* ------------------------------------------------------------ values
\* The queue never inspects an element, so the producer pushes distinct values,
\* the i-th accepted one being i (produced_values[i] in the test, i in the benchmark):
\* any loss, duplication or reordering then shows in the popped values.
Values   == 1..MaxPush
Raw      == 0       \* a slot of allocated storage holding no live element
ThrowArg == -1      \* a constructor argument for which T's constructor throws
NoSize   == -1      \* size() has not returned yet

\* size_t arithmetic wraps.  The build's size_t has 64 bits; the model checker's
\* integers have 32, so the model keeps a 16-bit word, far above every index here.
SizeTModulus == 2^16
SizeT(x) == x % SizeTModulus

VARIABLES
    mode,               \* "concurrent": the threads' steps interleave;
                        \* "sequential": a call begins only when no other is running;
                        \* "roundtrip": the two retry loops of the benchmark;
                        \* "observed": a third thread calls size() or empty() meanwhile;
                        \* "rbuffer": the two rbuffer classes run side by side
    num_elements,       \* how many values the producer thread pushes
    rb,                 \* the two rbuffer objects of rbuffer.hpp and main.cpp
    \* the Queue object
    life,               \* "invalid_argument" | "live" | "destroying" | "destroyed"
    size_, data_, readIdx_, readIdxCached_, writeIdx_, writeIdxCached_,
    \* producer thread: position in try_emplace, its locals, the last result
    ppc, writeIdx, nextWriteIdx, args, pushRet,
    \* consumer thread: position in try_pop, its local, the out parameter, the last result
    cpc, readIdx, value, popRet,
    \* the thread running ~spscq
    r, w,
    \* a thread calling size() or empty(): position, the loaded cursors, the last results
    opc, oReadIdx, oWriteIdx, sizeRet, emptyRet,
    \* history (not program state)
    pushed, popped,     \* values accepted by try_emplace / returned by try_pop
    ppre, cpre,         \* the queue as it was when the running call began (kept in
                        \* sequential runs, where no other thread changes it meanwhile)
    fifo, absPushRet, absPopRet, absValue,   \* the abstract bounded FIFO run alongside
    doubleCtor, doubleDtor,                  \* lifetime errors seen so far
    dpre, dtorLog,      \* the queue when ~spscq began, the slots it destroyed
    streak,             \* try_push calls completed since the queue was last seen empty
                        \* with no try_pop since (-1: not tracked)
    shadow,             \* the same run without its throwing try_emplace calls
    psteps, csteps, osteps,   \* steps the running call of each thread has taken
    oSeen,              \* every number of elements the queue held during the running
                        \* (or last) size() call
    oPops               \* try_pop calls that succeeded since the running size() call's
                        \* load of readIdx_

qvars == <<life, size_, data_, readIdx_, readIdxCached_, writeIdx_, writeIdxCached_>>
pvars == <<ppc, writeIdx, nextWriteIdx, args, pushRet>>
cvars == <<cpc, readIdx, value, popRet>>
dvars == <<r, w>>
ovars == <<opc, oReadIdx, oWriteIdx, sizeRet, emptyRet>>
hvars == <<pushed, popped, ppre, cpre, fifo, absPushRet, absPopRet, absValue,
           doubleCtor, doubleDtor, dpre, dtorLog, streak, shadow>>
svars == <<psteps, csteps, osteps, oSeen, oPops>>
fixed == <<mode, num_elements, rb>>
vars  == <<fixed, qvars, pvars, cvars, dvars, ovars, hvars, svars>>

\* The program state as one record, and its installation as the next state.
Cur == [life |-> life, size_ |-> size_, data_ |-> data_,
        readIdx_ |-> readIdx_, readIdxCached_ |-> readIdxCached_,
        writeIdx_ |-> writeIdx_, writeIdxCached_ |-> writeIdxCached_,
        ppc |-> ppc, writeIdx |-> writeIdx, nextWriteIdx |-> nextWriteIdx,
        args |-> args, pushRet |-> pushRet,
        cpc |-> cpc, readIdx |-> readIdx, value |-> value, popRet |-> popRet,
        r |-> r, w |-> w,
        opc |-> opc, oReadIdx |-> oReadIdx, oWriteIdx |-> oWriteIdx,
        sizeRet |-> sizeRet, emptyRet |-> emptyRet]

Become(s) ==
    /\ life' = s.life /\ size_' = s.size_ /\ data_' = s.data_
    /\ readIdx_' = s.readIdx_ /\ readIdxCached_' = s.readIdxCached_
    /\ writeIdx_' = s.writeIdx_ /\ writeIdxCached_' = s.writeIdxCached_
    /\ ppc' = s.ppc /\ writeIdx' = s.writeIdx /\ nextWriteIdx' = s.nextWriteIdx
    /\ args' = s.args /\ pushRet' = s.pushRet
    /\ cpc' = s.cpc /\ readIdx' = s.readIdx /\ value' = s.value /\ popRet' = s.popRet
    /\ r' = s.r /\ w' = s.w
    /\ opc' = s.opc /\ oReadIdx' = s.oReadIdx /\ oWriteIdx' = s.oWriteIdx
    /\ sizeRet' = s.sizeRet /\ emptyRet' = s.emptyRet

Is(s) ==
    /\ life = s.life /\ size_ = s.size_ /\ data_ = s.data_
    /\ readIdx_ = s.readIdx_ /\ readIdxCached_ = s.readIdxCached_
    /\ writeIdx_ = s.writeIdx_ /\ writeIdxCached_ = s.writeIdxCached_
    /\ ppc = s.ppc /\ writeIdx = s.writeIdx /\ nextWriteIdx = s.nextWriteIdx
    /\ args = s.args /\ pushRet = s.pushRet
    /\ cpc = s.cpc /\ readIdx = s.readIdx /\ value = s.value /\ popRet = s.popRet
    /\ r = s.r /\ w = s.w
    /\ opc = s.opc /\ oReadIdx = s.oReadIdx /\ oWriteIdx = s.oWriteIdx
    /\ sizeRet = s.sizeRet /\ emptyRet = s.emptyRet

\* The fields of the Queue object alone.
QueueOf(s) == [data_ |-> s.data_, readIdx_ |-> s.readIdx_,
               readIdxCached_ |-> s.readIdxCached_,
               writeIdx_ |-> s.writeIdx_, writeIdxCached_ |-> s.writeIdxCached_]
NoSnap == [data_ |-> <<>>, readIdx_ |-> 0, readIdxCached_ |-> 0,
           writeIdx_ |-> 0, writeIdxCached_ |-> 0]
NoSnapC == [q |-> NoSnap, value |-> 0]

\* ------------------------------------------------------------ spscq.hpp
\* Mutant of increment: the wrap test is off by one (nextIdx == size_ - 1).
increment_wraps_early(size, index) ==
    LET nextIdx == index + 1
    IN  IF nextIdx >= size - 1 THEN 0 ELSE nextIdx

\* spscq::increment
increment(size, index) ==
    LET nextIdx == index + 1
    IN  IF nextIdx = size THEN 0 ELSE nextIdx

\* Mutant of spscq: the constructor accepts a size of 0.
spscq_accepts_zero(size) ==
    [life |-> "live",
     size_ |-> size,
     data_ |-> [i \in 0..(size - 1) |-> Raw],
     readIdx_ |-> 0, readIdxCached_ |-> 0, writeIdx_ |-> 0, writeIdxCached_ |-> 0,
     ppc |-> "idle", writeIdx |-> 0, nextWriteIdx |-> 0, args |-> 0, pushRet |-> "none",
     cpc |-> "idle", readIdx |-> 0, value |-> 0, popRet |-> "none",
     r |-> 0, w |-> 0,
     opc |-> "idle", oReadIdx |-> 0, oWriteIdx |-> 0,
     sizeRet |-> NoSize, emptyRet |-> "none"]

\* spscq::spscq(size): the state after the constructor returned or threw.
spscq(size) ==
    [life |-> IF size = 0 THEN "invalid_argument" ELSE "live",
     size_ |-> size,
     data_ |-> [i \in 0..(size - 1) |-> Raw],
     readIdx_ |-> 0, readIdxCached_ |-> 0, writeIdx_ |-> 0, writeIdxCached_ |-> 0,
     ppc |-> "idle", writeIdx |-> 0, nextWriteIdx |-> 0, args |-> 0, pushRet |-> "none",
     cpc |-> "idle", readIdx |-> 0, value |-> 0, popRet |-> "none",
     r |-> 0, w |-> 0,
     opc |-> "idle", oReadIdx |-> 0, oWriteIdx |-> 0,
     sizeRet |-> NoSize, emptyRet |-> "none"]

\* Mutant of emplace_L52: writeIdx_ is published as soon as the cache shows room,
\* before the element is constructed.
emplace_L52_publishes_first(s, a) ==
    LET next == increment(s.size_, s.writeIdx_)
    IN  IF next = s.readIdxCached_
        THEN [s EXCEPT !.args = a, !.writeIdx = s.writeIdx_, !.nextWriteIdx = next,
                       !.ppc = "L57"]
        ELSE [s EXCEPT !.args = a, !.writeIdx = s.writeIdx_, !.nextWriteIdx = next,
                       !.writeIdx_ = next, !.ppc = "L64"]

\* Mutant of emplace_L52: the cache is compared with writeIdx_ instead of
\* nextWriteIdx, so no slot is kept in reserve.
emplace_L52_tests_writeIdx(s, a) ==
    LET next == increment(s.size_, s.writeIdx_)
    IN  [s EXCEPT !.args = a, !.writeIdx = s.writeIdx_, !.nextWriteIdx = next,
                  !.ppc = IF s.writeIdx_ = s.readIdxCached_ THEN "L57" ELSE "L64"]

\* try_emplace, lines 52-55: load writeIdx_, compute nextWriteIdx, test the cache.
emplace_L52(s, a) ==
    LET next == increment(s.size_, s.writeIdx_)
    IN  [s EXCEPT !.args = a, !.writeIdx = s.writeIdx_, !.nextWriteIdx = next,
                  !.ppc = IF next = s.readIdxCached_ THEN "L57" ELSE "L64"]

\* The producer's locals go out of scope when try_emplace returns or throws.
emplace_return(s, ret) ==
    [s EXCEPT !.ppc = "idle", !.pushRet = ret,
              !.writeIdx = 0, !.nextWriteIdx = 0, !.args = 0]

\* Mutant of emplace_L57: the test is not repeated after the refresh.
emplace_L57_no_recheck(s) ==
    [s EXCEPT !.readIdxCached_ = s.readIdx_, !.ppc = "L64"]

\* Mutant of emplace_L57: the cache is not refreshed from readIdx_.
emplace_L57_no_refresh(s) ==
    IF s.nextWriteIdx = s.readIdxCached_
    THEN emplace_return(s, "false")
    ELSE [s EXCEPT !.ppc = "L64"]

\* Mutant of emplace_L57: a full queue makes the producer wait at line 57 and
\* load readIdx_ again, until the consumer has made room.
emplace_L57_waits(s) ==
    LET t == [s EXCEPT !.readIdxCached_ = s.readIdx_]
    IN  IF t.nextWriteIdx = t.readIdxCached_
        THEN t
        ELSE [t EXCEPT !.ppc = "L64"]

\* try_emplace, lines 57-62: refresh the cache from readIdx_, test again.
emplace_L57(s) ==
    LET t == [s EXCEPT !.readIdxCached_ = s.readIdx_]
    IN  IF t.nextWriteIdx = t.readIdxCached_
        THEN emplace_return(t, "false")
        ELSE [t EXCEPT !.ppc = "L64"]

\* Mutant of emplace_L64: writeIdx_ is published before the element is constructed.
emplace_L64_store_first(s) ==
    LET t == [s EXCEPT !.writeIdx_ = s.nextWriteIdx]
    IN  IF s.args = ThrowArg
        THEN emplace_return(t, "throw")
        ELSE [t EXCEPT !.data_[s.writeIdx] = s.args, !.ppc = "L65"]

\* try_emplace, line 64: construct T(args) in the slot; T's constructor may throw.
emplace_L64(s) ==
    IF s.args = ThrowArg
    THEN emplace_return(s, "throw")
    ELSE [s EXCEPT !.data_[s.writeIdx] = s.args, !.ppc = "L65"]

\* try_emplace, lines 65-67: publish nextWriteIdx, return true.
emplace_L65(s) ==
    emplace_return([s EXCEPT !.writeIdx_ = s.nextWriteIdx], "true")

\* try_pop, lines 106-108: load readIdx_, test the cache.
pop_L106(s) ==
    [s EXCEPT !.readIdx = s.readIdx_,
              !.cpc = IF s.readIdx_ = s.writeIdxCached_ THEN "L110" ELSE "L117"]

\* The consumer's local goes out of scope when try_pop returns.
pop_return(s, ret) ==
    [s EXCEPT !.cpc = "idle", !.popRet = ret, !.readIdx = 0]

\* Mutant of pop_L110: the test is not repeated after the refresh.
pop_L110_no_recheck(s) ==
    [s EXCEPT !.writeIdxCached_ = s.writeIdx_, !.cpc = "L117"]

\* Mutant of pop_L110: the cache is not refreshed from writeIdx_.
pop_L110_no_refresh(s) ==
    IF s.readIdx = s.writeIdxCached_
    THEN pop_return(s, "false")
    ELSE [s EXCEPT !.cpc = "L117"]

\* Mutant of pop_L110: the slot is moved into value before the test is repeated.
pop_L110_moves_first(s) ==
    LET t == [s EXCEPT !.writeIdxCached_ = s.writeIdx_, !.value = s.data_[s.readIdx]]
    IN  IF t.readIdx = t.writeIdxCached_
        THEN pop_return(t, "false")
        ELSE [t EXCEPT !.cpc = "L117"]

\* Mutant of pop_L110: the consumer keeps its copy of writeIdx_ in the
\* producer's cache readIdxCached_.
pop_L110_wrong_cache(s) ==
    LET t == [s EXCEPT !.readIdxCached_ = s.writeIdx_]
    IN  IF t.readIdx = t.readIdxCached_
        THEN pop_return(t, "false")
        ELSE [t EXCEPT !.cpc = "L117"]

\* try_pop, lines 110-115: refresh the cache from writeIdx_, test again.
pop_L110(s) ==
    LET t == [s EXCEPT !.writeIdxCached_ = s.writeIdx_]
    IN  IF t.readIdx = t.writeIdxCached_
        THEN pop_return(t, "false")
        ELSE [t EXCEPT !.cpc = "L117"]

\* What reading a slot as a T yields: its element, or anything when the slot
\* holds no live element.
SlotRead(cell) == IF cell = Raw THEN Values ELSE {cell}

\* try_pop, line 117: value = std::move(data_[readIdx]); v is what the read yields.
\* The elements are integers (tests, benchmark): moving out leaves the slot as it was.
pop_L117(s, v) ==
    [s EXCEPT !.value = v, !.cpc = "L118"]

\* Mutant of pop_L118: the element is not destroyed.
pop_L118_no_destroy(s) ==
    [s EXCEPT !.cpc = "L120"]

\* try_pop, line 118: data_[readIdx].~T()
pop_L118(s) ==
    [s EXCEPT !.data_[s.readIdx] = Raw, !.cpc = "L120"]

\* Mutant of pop_L120: readIdx_ is stored back without the increment.
pop_L120_no_advance(s) ==
    pop_return([s EXCEPT !.readIdx_ = s.readIdx], "true")

\* try_pop, lines 120-123: publish the incremented readIdx, return true.
pop_L120(s) ==
    pop_return([s EXCEPT !.readIdx_ = increment(s.size_, s.readIdx)], "true")

\* Mutant of dtor_L195: the walk starts at slot 0 instead of readIdx_.
dtor_L195_from_zero(s) ==
    [s EXCEPT !.life = "destroying", !.r = 0, !.w = s.writeIdx_]

\* ~spscq, lines 195-196: load both cursors.
dtor_L195(s) ==
    [s EXCEPT !.life = "destroying", !.r = s.readIdx_, !.w = s.writeIdx_]

\* ~spscq, lines 198-202: one iteration of the walk.
dtor_L200(s) ==
    [s EXCEPT !.data_[s.r] = Raw, !.r = increment(s.size_, s.r)]

\* ~spscq, line 204: release the storage.
dtor_L204(s) ==
    [s EXCEPT !.life = "destroyed", !.r = 0, !.w = 0]

\* size(), line 141: load readIdx_.
size_L141(s) ==
    [s EXCEPT !.oReadIdx = s.readIdx_, !.opc = "size_L142"]

\* Mutant of size_L142: no correction when writeIdx_ is below readIdx_.
size_L142_no_wrap(s) ==
    [s EXCEPT !.sizeRet = SizeT(s.writeIdx_ - s.oReadIdx),
              !.opc = "idle", !.oReadIdx = 0]

\* Mutant of size_L142: both cursors are read at once at line 142, the earlier
\* load of readIdx_ being ignored.
size_L142_snapshot(s) ==
    LET rd == s.readIdx_
        wr == s.writeIdx_
    IN  [s EXCEPT !.sizeRet = SizeT(SizeT(wr - rd) + (IF wr < rd THEN s.size_ ELSE 0)),
                  !.opc = "idle", !.oReadIdx = 0]

\* size(), lines 142-144: load writeIdx_, return the difference in size_t arithmetic.
size_L142(s) ==
    LET rd == s.oReadIdx
        wr == s.writeIdx_
    IN  [s EXCEPT !.sizeRet = SizeT(SizeT(wr - rd) + (IF wr < rd THEN s.size_ ELSE 0)),
                  !.opc = "idle", !.oReadIdx = 0]

\* empty(), line 158: the two loads are operands of ==, evaluated in either order.
empty_first(s, which) ==
    IF which = "readIdx_"
    THEN [s EXCEPT !.oReadIdx = s.readIdx_, !.opc = "empty_writeIdx_"]
    ELSE [s EXCEPT !.oWriteIdx = s.writeIdx_, !.opc = "empty_readIdx_"]

empty_second(s) ==
    LET rd == IF s.opc = "empty_readIdx_" THEN s.readIdx_ ELSE s.oReadIdx
        wr == IF s.opc = "empty_writeIdx_" THEN s.writeIdx_ ELSE s.oWriteIdx
    IN  [s EXCEPT !.emptyRet = IF rd = wr THEN "true" ELSE "false",
                  !.opc = "idle", !.oReadIdx = 0, !.oWriteIdx = 0]

\* ------------------------------------------------------------ abstract FIFO
\* A sequence bounded to cap elements: the result and the sequence after a push.
\* A full sequence rejects the push before the element is made.
AbsPushRet(q, cap, a) ==
    IF Len(q) >= cap THEN "false" ELSE IF a = ThrowArg THEN "throw" ELSE "true"
AbsPush(q, cap, a) ==
    IF AbsPushRet(q, cap, a) = "true" THEN Append(q, a) ELSE q
AbsPopRet(q) == IF Len(q) > 0 THEN "true" ELSE "false"
AbsPop(q) == IF Len(q) > 0 THEN Tail(q) ELSE q

\* ------------------------------------------------------------ the shadow run
\* The shadow is a second queue given the same calls in the same interleaving,
\* except that a try_emplace whose constructor throws is never called on it.
\* (A call whose argument would throw but that finds the queue full constructs
\* nothing and returns false: the shadow makes that call, when it returns.)
PStep(t) ==
    CASE t.ppc = "L57" -> emplace_L57(t)
      [] t.ppc = "L64" -> emplace_L64(t)
      [] t.ppc = "L65" -> emplace_L65(t)
      [] OTHER -> t

CStep(t, v) ==
    CASE t.cpc = "idle" -> pop_L106(t)
      [] t.cpc = "L110" -> pop_L110(t)
      [] t.cpc = "L117" -> pop_L117(t, IF t.data_[t.readIdx] = Raw THEN v
                                       ELSE t.data_[t.readIdx])
      [] t.cpc = "L118" -> pop_L118(t)
      [] t.cpc = "L120" -> pop_L120(t)
      [] OTHER -> t

\* A throwing call may have refreshed the run's cache, so the run can skip a
\* refresh that the shadow producer still has to make: it makes it at once.
ShadowSync(t, n) ==
    IF t.ppc = "L57" /\ n.ppc = "L64" THEN emplace_L57(t) ELSE t

ShadowBegin(a, n) ==
    IF a = ThrowArg THEN shadow ELSE ShadowSync(emplace_L52(shadow, a), n)

PCall(t, a) ==
    LET t1 == emplace_L52(t, a)
        t2 == PStep(t1)
    IN  PStep(t2)

ShadowEmplace(n) ==
    IF args = ThrowArg
    THEN IF n.ppc = "idle" /\ n.pushRet = "false" THEN PCall(shadow, args) ELSE shadow
    ELSE ShadowSync(IF shadow.ppc = ppc THEN PStep(shadow) ELSE shadow, n)

ShadowPop(v) ==
    IF shadow.cpc = cpc THEN CStep(shadow, v) ELSE shadow

\* ------------------------------------------------------------ rbuffer
\* a & b on size_t operands.
RECURSIVE BitAnd(_, _)
BitAnd(a, b) ==
    IF a = 0 \/ b = 0 THEN 0
    ELSE (a % 2) * (b % 2) + 2 * BitAnd(a \div 2, b \div 2)

\* rbuffer<N>: static_assert((size_ & mask_) == 0) with mask_ = N - 1.
IsPowerOfTwo(N) == N > 0 /\ BitAnd(N, SizeT(N - 1)) = 0

\* Mutant of rbuffer_N_next: the index is masked with N instead of mask_.
rbuffer_N_next_masks_N(N, i) == BitAnd(SizeT(i + 1), N)

\* rbuffer<N> (rbuffer.hpp): (idx + 1) & mask_
rbuffer_N_next(N, i) == BitAnd(SizeT(i + 1), SizeT(N - 1))

\* rbuffer (main.cpp): idx + 1 == capacity_ ? 0 : idx + 1
rbuffer_next(capacity_, i) == IF SizeT(i + 1) = capacity_ THEN 0 ELSE SizeT(i + 1)

\* Either class after construction: the cursors and caches are 0; no slot has
\* been written (the vector's slots are zero, the array's are not initialised).
rbuffer(N) ==
    [data_ |-> [i \in 0..(N - 1) |-> Raw],
     readIdx_ |-> 0, readIdxCached_ |-> 0, writeIdx_ |-> 0, writeIdxCached_ |-> 0]

\* push of either class, next being the class's nextWriteIdx: the buffer after
\* the call and the value returned.
rbuffer_push(b, next, v) ==
    LET t == IF next = b.readIdxCached_
             THEN [b EXCEPT !.readIdxCached_ = b.readIdx_]
             ELSE b
    IN  IF next = t.readIdxCached_
        THEN [b |-> t, ret |-> "false"]
        ELSE [b |-> [t EXCEPT !.data_[b.writeIdx_] = v, !.writeIdx_ = next],
              ret |-> "true"]

\* pop of either class, next being the class's nextReadIdx: the buffer after
\* the call, the value returned and the out parameter (old: its value before).
rbuffer_pop(b, next, old) ==
    LET t == IF b.readIdx_ = b.writeIdxCached_
             THEN [b EXCEPT !.writeIdxCached_ = b.writeIdx_]
             ELSE b
    IN  IF b.readIdx_ = t.writeIdxCached_
        THEN [b |-> t, ret |-> "false", value |-> old]
        ELSE [b |-> [t EXCEPT !.readIdx_ = next],
              ret |-> "true", value |-> b.data_[b.readIdx_]]

\* No rbuffer exists.
NoRb == <<>>

\* An rbuffer<N> and an rbuffer(N) side by side, the results of the last call
\* on each, and the bounded FIFO of N - 1 elements given the same calls.
TwoBuffers(N) ==
    [N |-> N, mask |-> rbuffer(N), cond |-> rbuffer(N),
     maskRet |-> "none", condRet |-> "none", maskValue |-> 0, condValue |-> 0,
     fifo |-> <<>>, absRet |-> "none", absValue |-> 0, pushes |-> 0]

\* ------------------------------------------------------------ actions
\* Whether thread t may begin a call now.
MayBegin(t) ==
    \/ mode # "sequential"
    \/ /\ t = "producer" \/ ppc = "idle"
       /\ t = "consumer" \/ cpc = "idle"
       /\ t = "observer" \/ opc = "idle"

Fresh(size) ==
    /\ Is(spscq(size))
    /\ pushed = <<>> /\ popped = <<>>
    /\ ppre = NoSnap /\ cpre = NoSnapC
    /\ fifo = <<>> /\ absPushRet = "none" /\ absPopRet = "none" /\ absValue = 0
    /\ doubleCtor = FALSE /\ doubleDtor = FALSE
    /\ dpre = NoSnap /\ dtorLog = <<>>
    /\ streak = 0
    /\ shadow = Cur
    /\ psteps = 0 /\ csteps = 0 /\ osteps = 0
    /\ oSeen = {} /\ oPops = 0

Constructed == \E size \in 0..MaxSize : Fresh(size)

\* The test and the benchmark push a fixed number of values; no rbuffer here.
Harness(k) == num_elements = k /\ rb = NoRb

Init == mode = "concurrent" /\ Harness(MaxPush) /\ Constructed
SeqInit == mode = "sequential" /\ Harness(MaxPush) /\ Constructed

\* The number of elements in the queue: accepted and not yet popped.
Elements == Len(pushed) - Len(popped)

\* The element counts seen by a running size() call, k being the newest.
Watched(k) == IF opc = "size_L142" THEN oSeen \cup {k} ELSE oSeen

\* What the history records when a try_emplace step leaves the state n.
EmplaceHistory(n) ==
    /\ shadow' = ShadowEmplace(n)
    /\ psteps' = IF n.ppc = "idle" THEN 0 ELSE psteps + 1
    /\ oSeen' = Watched(IF n.ppc = "idle" /\ n.pushRet = "true"
                        THEN Elements + 1 ELSE Elements)
    /\ IF n.ppc = "idle"
       THEN /\ pushed' = IF n.pushRet = "true" THEN Append(pushed, args) ELSE pushed
            /\ absPushRet' = AbsPushRet(fifo, size_ - 1, args)
            /\ fifo' = AbsPush(fifo, size_ - 1, args)
            /\ ppre' = NoSnap
            /\ streak' = IF n.pushRet = "throw" \/ streak < 0 THEN streak
                         ELSE IF streak < size_ THEN streak + 1 ELSE size_
       ELSE UNCHANGED <<pushed, absPushRet, fifo, ppre, streak>>

\* What the history records when a try_pop step leaves the state n.
PopHistory(n, v) ==
    /\ shadow' = ShadowPop(v)
    /\ csteps' = IF n.cpc = "idle" THEN 0 ELSE csteps + 1
    /\ oSeen' = Watched(IF n.cpc = "idle" /\ n.popRet = "true"
                        THEN Elements - 1 ELSE Elements)
    /\ oPops' = IF opc = "size_L142" /\ n.cpc = "idle" /\ n.popRet = "true"
                THEN oPops + 1 ELSE oPops
    /\ IF n.cpc = "idle"
       THEN /\ popped' = IF n.popRet = "true" THEN Append(popped, n.value) ELSE popped
            /\ absPopRet' = AbsPopRet(fifo)
            /\ absValue' = IF Len(fifo) > 0 THEN Head(fifo) ELSE absValue
            /\ fifo' = AbsPop(fifo)
            /\ cpre' = NoSnapC
            /\ streak' = IF n.readIdx_ = n.writeIdx_ THEN 0 ELSE -1
       ELSE UNCHANGED <<popped, absPopRet, absValue, fifo, cpre, streak>>

try_emplace_L52(a) ==
    /\ life = "live" /\ ppc = "idle" /\ MayBegin("producer")
    /\ Len(pushed) < num_elements
    /\ LET n == emplace_L52(Cur, a) IN Become(n) /\ shadow' = ShadowBegin(a, n)
    /\ ppre' = IF mode = "sequential" THEN QueueOf(Cur) ELSE NoSnap
    /\ psteps' = 1
    /\ UNCHANGED <<fixed, pushed, popped, cpre, fifo, absPushRet, absPopRet, absValue,
                   doubleCtor, doubleDtor, dpre, dtorLog, streak,
                   csteps, osteps, oSeen, oPops>>

try_emplace_L57 ==
    /\ ppc = "L57"
    /\ LET n == emplace_L57(Cur) IN Become(n) /\ EmplaceHistory(n)
    /\ UNCHANGED <<fixed, popped, cpre, absPopRet, absValue, doubleCtor, doubleDtor, dpre, dtorLog,
                   csteps, osteps, oPops>>

try_emplace_L64 ==
    /\ ppc = "L64"
    /\ LET n == emplace_L64(Cur) IN Become(n) /\ EmplaceHistory(n)
    /\ doubleCtor' = (doubleCtor \/ (args # ThrowArg /\ data_[writeIdx] # Raw))
    /\ UNCHANGED <<fixed, popped, cpre, absPopRet, absValue, doubleDtor, dpre, dtorLog,
                   csteps, osteps, oPops>>

try_emplace_L65 ==
    /\ ppc = "L65"
    /\ LET n == emplace_L65(Cur) IN Become(n) /\ EmplaceHistory(n)
    /\ UNCHANGED <<fixed, popped, cpre, absPopRet, absValue, doubleCtor, doubleDtor, dpre, dtorLog,
                   csteps, osteps, oPops>>

try_pop_L106 ==
    /\ life = "live" /\ cpc = "idle" /\ MayBegin("consumer")
    /\ mode = "roundtrip" => Len(popped) < num_elements
    /\ Become(pop_L106(Cur))
    /\ shadow' = ShadowPop(0)
    /\ cpre' = IF mode = "sequential" THEN [q |-> QueueOf(Cur), value |-> value]
               ELSE NoSnapC
    /\ csteps' = 1
    /\ UNCHANGED <<fixed, pushed, popped, ppre, fifo, absPushRet, absPopRet, absValue,
                   doubleCtor, doubleDtor, dpre, dtorLog, streak,
                   psteps, osteps, oSeen, oPops>>

try_pop_L110 ==
    /\ cpc = "L110"
    /\ LET n == pop_L110(Cur) IN Become(n) /\ PopHistory(n, 0)
    /\ UNCHANGED <<fixed, pushed, ppre, absPushRet, doubleCtor, doubleDtor, dpre, dtorLog,
                   psteps, osteps>>

try_pop_L117 ==
    /\ cpc = "L117"
    /\ \E v \in SlotRead(data_[readIdx]) :
          LET n == pop_L117(Cur, v) IN Become(n) /\ PopHistory(n, v)
    /\ UNCHANGED <<fixed, pushed, ppre, absPushRet, doubleCtor, doubleDtor, dpre, dtorLog,
                   psteps, osteps>>

try_pop_L118 ==
    /\ cpc = "L118"
    /\ LET n == pop_L118(Cur) IN Become(n) /\ PopHistory(n, 0)
    /\ doubleDtor' = (doubleDtor \/ data_[readIdx] = Raw)
    /\ UNCHANGED <<fixed, pushed, ppre, absPushRet, doubleCtor, dpre, dtorLog,
                   psteps, osteps>>

try_pop_L120 ==
    /\ cpc = "L120"
    /\ LET n == pop_L120(Cur) IN Become(n) /\ PopHistory(n, 0)
    /\ UNCHANGED <<fixed, pushed, ppre, absPushRet, doubleCtor, doubleDtor, dpre, dtorLog,
                   psteps, osteps>>

\* ~spscq runs once every thread has stopped using the queue.
destroy_L195 ==
    /\ life = "live" /\ ppc = "idle" /\ cpc = "idle" /\ opc = "idle"
    /\ Become(dtor_L195(Cur))
    /\ dpre' = QueueOf(Cur)
    /\ UNCHANGED <<fixed, pushed, popped, ppre, cpre, fifo, absPushRet, absPopRet, absValue,
                   doubleCtor, doubleDtor, dtorLog, streak, shadow, svars>>

destroy_L200 ==
    /\ life = "destroying" /\ r # w
    /\ Become(dtor_L200(Cur))
    /\ dtorLog' = Append(dtorLog, r)
    /\ doubleDtor' = (doubleDtor \/ data_[r] = Raw)
    /\ UNCHANGED <<fixed, pushed, popped, ppre, cpre, fifo, absPushRet, absPopRet, absValue,
                   doubleCtor, dpre, streak, shadow, svars>>

destroy_L204 ==
    /\ life = "destroying" /\ r = w
    /\ Become(dtor_L204(Cur))
    /\ UNCHANGED <<fixed, hvars, svars>>

call_size_L141 ==
    /\ life = "live" /\ opc = "idle" /\ MayBegin("observer")
    /\ mode = "observed" => sizeRet = NoSize /\ emptyRet = "none"
    /\ Become(size_L141(Cur))
    /\ osteps' = 1 /\ oSeen' = {Elements} /\ oPops' = 0
    /\ UNCHANGED <<fixed, hvars, psteps, csteps>>

call_size_L142 ==
    /\ opc = "size_L142"
    /\ Become(size_L142(Cur))
    /\ osteps' = 0 /\ oPops' = 0
    /\ UNCHANGED <<fixed, hvars, psteps, csteps, oSeen>>

call_empty_first ==
    /\ life = "live" /\ opc = "idle" /\ MayBegin("observer")
    /\ mode = "observed" => sizeRet = NoSize /\ emptyRet = "none"
    /\ \E which \in {"readIdx_", "writeIdx_"} : Become(empty_first(Cur, which))
    /\ osteps' = 1
    /\ UNCHANGED <<fixed, hvars, psteps, csteps, oSeen, oPops>>

call_empty_second ==
    /\ opc \in {"empty_readIdx_", "empty_writeIdx_"}
    /\ Become(empty_second(Cur))
    /\ osteps' = 0
    /\ UNCHANGED <<fixed, hvars, psteps, csteps, oSeen, oPops>>

Producer ==
    \/ \E a \in {Len(pushed) + 1, ThrowArg} : try_emplace_L52(a)
    \/ try_emplace_L57
    \/ try_emplace_L64
    \/ try_emplace_L65

Consumer ==
    \/ try_pop_L106
    \/ try_pop_L110
    \/ try_pop_L117
    \/ try_pop_L118
    \/ try_pop_L120

Destructor ==
    \/ destroy_L195
    \/ destroy_L200
    \/ destroy_L204

Observer ==
    \/ call_size_L141
    \/ call_size_L142
    \/ call_empty_first
    \/ call_empty_second

\* One producer thread and one consumer thread, their steps interleaved.
Next == Producer \/ Consumer \/ Destructor
Spec == Init /\ [][Next]_vars

\* Every operation, run one at a time: no call overlaps another.
SeqNext == Producer \/ Consumer \/ Observer \/ Destructor
SeqSpec == SeqInit /\ [][SeqNext]_vars

\* The producer thread of the test and of the benchmark: it retries try_push
\* until it returns true, for each of its num_elements values in turn.
ProducerThread ==
    \/ try_emplace_L52(Len(pushed) + 1)
    \/ try_emplace_L57
    \/ try_emplace_L64
    \/ try_emplace_L65

\* The round trip: the consumer thread retries try_pop until it has popped
\* num_elements values.  Each thread that can take a step eventually takes one.
RoundTripInit ==
    /\ mode = "roundtrip"
    /\ \E k \in 0..MaxPush : Harness(k)
    /\ Constructed
RoundTripNext == ProducerThread \/ Consumer
RoundTripSpec ==
    /\ RoundTripInit /\ [][RoundTripNext]_vars
    /\ WF_vars(ProducerThread) /\ WF_vars(Consumer)

\* A third thread makes one call of size() or empty() while the producer and the
\* consumer run: all three threads' steps interleave.
ObsInit == mode = "observed" /\ Harness(MaxObserved) /\ Constructed
ObsNext == Producer \/ Consumer \/ Observer
ObsSpec == ObsInit /\ [][ObsNext]_vars

\* The same push and pop calls made, one at a time, on an rbuffer<N> and on an
\* rbuffer(N), for every power of two N; no spscq is constructed.  The values
\* pushed are enough to fill the largest buffer twice.
rb_push(v) ==
    /\ mode = "rbuffer" /\ rb.pushes < num_elements
    /\ LET m == rbuffer_push(rb.mask, rbuffer_N_next(rb.N, rb.mask.writeIdx_), v)
           c == rbuffer_push(rb.cond, rbuffer_next(rb.N, rb.cond.writeIdx_), v)
           a == AbsPushRet(rb.fifo, rb.N - 1, v)
       IN  rb' = [rb EXCEPT !.mask = m.b, !.cond = c.b,
                            !.maskRet = m.ret, !.condRet = c.ret,
                            !.absRet = a, !.fifo = AbsPush(rb.fifo, rb.N - 1, v),
                            !.pushes = IF a = "true" THEN rb.pushes + 1 ELSE rb.pushes]
    /\ UNCHANGED <<mode, num_elements, qvars, pvars, cvars, dvars, ovars, hvars, svars>>

rb_pop ==
    /\ mode = "rbuffer"
    /\ LET m == rbuffer_pop(rb.mask, rbuffer_N_next(rb.N, rb.mask.readIdx_), rb.maskValue)
           c == rbuffer_pop(rb.cond, rbuffer_next(rb.N, rb.cond.readIdx_), rb.condValue)
       IN  rb' = [rb EXCEPT !.mask = m.b, !.cond = c.b,
                            !.maskRet = m.ret, !.condRet = c.ret,
                            !.maskValue = m.value, !.condValue = c.value,
                            !.absRet = AbsPopRet(rb.fifo),
                            !.absValue = IF Len(rb.fifo) > 0 THEN Head(rb.fifo)
                                         ELSE rb.absValue,
                            !.fifo = AbsPop(rb.fifo)]
    /\ UNCHANGED <<mode, num_elements, qvars, pvars, cvars, dvars, ovars, hvars, svars>>

RbInit ==
    /\ mode = "rbuffer" /\ num_elements = 2 * 2^MaxLog
    /\ \E N \in {n \in 1..(2^MaxLog) : IsPowerOfTwo(n)} : rb = TwoBuffers(N)
    /\ Fresh(0)
RbNext == rb_push(rb.pushes + 1) \/ rb_pop
RbSpec == RbInit /\ [][RbNext]_vars

\* ------------------------------------------------------------ properties
IsPrefix(s1, s2) == Len(s1) <= Len(s2) /\ SubSeq(s2, 1, Len(s1)) = s1

\* The circular index range [rd, wr) of a storage of the given size.
Occupied(size, rd, wr) ==
    {i \in 0..(size - 1) : (i - rd) % size < (wr - rd) % size}

LiveSlots == {i \in DOMAIN data_ : data_[i] # Raw}

Quiescent == life = "live" /\ ppc = "idle" /\ cpc = "idle" /\ opc = "idle"

\* C1: in every interleaving of the steps of one producer and one consumer, the
\* values returned by successful try_pop calls are at all times a prefix of the
\* values accepted by successful try_emplace calls: nothing is lost, duplicated
\* or reordered.
C1_PoppedIsPrefixOfPushed == IsPrefix(popped, pushed)

\* C1 witness: in a run whose cursors wrapped, every accepted value but the last
\* has been popped in order; the consumer is about to destroy the slot of the last
\* one while the producer, having constructed the next, is about to publish it.
C1_Witness ==
    /\ mode = "concurrent" /\ ppc = "L65" /\ cpc = "L118"
    /\ Len(pushed) >= size_ /\ Len(popped) = Len(pushed) - 1
    /\ writeIdx < readIdx

\* C2: from an empty queue (wherever the cursors are), of the try_push calls made
\* with no try_pop in between, the first size_ - 1 return true and the next ones
\* return false; a queue of size 1 rejects every push.
C2_CapacityIsSizeMinusOne ==
    (streak >= 1 /\ pushRet # "throw") =>
        pushRet = IF streak <= size_ - 1 THEN "true" ELSE "false"

\* C2 witness: a queue of size 3 emptied with its cursors at 2 has accepted two
\* pushes and rejected the third.
C2_Witness ==
    /\ size_ = 3 /\ readIdx_ = 2 /\ writeIdx_ = 1
    /\ streak = 3 /\ pushRet = "false" /\ ppc = "idle"

\* C2 witness for the queue of size 1: its first push has been rejected.
C2_WitnessSizeOne == size_ = 1 /\ streak = 1 /\ pushRet = "false"

\* C3: run sequentially, try_pop returns true exactly when some pushed element has
\* not been popped yet; so it returns false on a fresh queue and on a drained one.
C3_PopSucceedsIffNonEmpty ==
    [][(cpc # "idle" /\ cpc' = "idle") =>
          (popRet' = "true" <=> Len(pushed) > Len(popped))]_vars

\* C3 witness: a queue that was filled and drained has failed the next try_pop.
C3_Witness ==
    /\ mode = "sequential" /\ cpc = "idle" /\ popRet = "false"
    /\ Len(pushed) >= 2 /\ popped = pushed /\ readIdx_ = writeIdx_

\* C4: run sequentially, every call returns what the abstract FIFO bounded to
\* size_ - 1 elements returns, and every successful try_pop yields its value.
C4_RefinesBoundedFifo ==
    /\ ppc = "idle" => pushRet = absPushRet
    /\ cpc = "idle" => /\ popRet = absPopRet
                       /\ popRet = "true" => value = absValue

\* C4 witness: the worked wraparound example on a storage of size 4: three pushes
\* fill it, one pop, a fourth push wraps and is accepted, a fifth is rejected,
\* the pops then yield the rest in order and the last one fails.
C4_Witness ==
    /\ mode = "sequential" /\ size_ = 4 /\ Quiescent
    /\ pushed = <<1, 2, 3, 4>> /\ popped = pushed
    /\ pushRet = "false" /\ popRet = "false"
    /\ writeIdx_ = 0 /\ readIdx_ = 0

\* C5: a failed call changes nothing.  When try_emplace returns false the slots,
\* both cursors and both caches are as they were when the call began; when
\* try_pop returns false so are they, and the out parameter.
C5_FailedCallChangesNothing ==
    [][/\ (ppc # "idle" /\ ppc' = "idle" /\ pushRet' = "false")
            => QueueOf(Cur)' = ppre
       /\ (cpc # "idle" /\ cpc' = "idle" /\ popRet' = "false")
            => (QueueOf(Cur)' = cpre.q /\ value' = cpre.value)]_vars

\* C5 witness: a try_emplace has failed on a full queue after refreshing its cache,
\* and a try_pop has failed on an empty one with the out parameter holding a value.
C5_Witness ==
    /\ mode = "sequential" /\ Quiescent
    /\ pushRet = "false" /\ popRet = "false" /\ value # 0
    /\ readIdx_ = writeIdx_ /\ readIdx_ # 0

\* C6 as stated: when the constructor throws inside try_emplace, the slots, both
\* cursors and both caches are exactly what they were when the call began.
C6_ThrowLeavesQueueExactlyAsBefore ==
    [][(ppc # "idle" /\ ppc' = "idle" /\ pushRet' = "throw")
          => QueueOf(Cur)' = ppre]_vars

\* C6 amended: when the constructor throws inside try_emplace, the target slot
\* holds no element and the slots, both cursors and the consumer's cache are what
\* they were when the call began; the producer's cache readIdxCached_ is what it
\* was or has been refreshed to readIdx_.
C6_ThrowLeavesQueueButProducerCache ==
    [][(ppc # "idle" /\ ppc' = "idle" /\ pushRet' = "throw") =>
          /\ data_'[writeIdx_'] = Raw
          /\ data_' = ppre.data_
          /\ writeIdx_' = ppre.writeIdx_ /\ readIdx_' = ppre.readIdx_
          /\ writeIdxCached_' = ppre.writeIdxCached_
          /\ readIdxCached_' \in {ppre.readIdxCached_, readIdx_'}]_vars

\* C6 witness: a try_emplace has thrown after refreshing the producer's cache
\* (the cache of the run without that call still holds the older value).
C6_Witness ==
    /\ mode = "sequential" /\ Quiescent /\ pushRet = "throw"
    /\ shadow.readIdxCached_ # readIdxCached_

\* C7: a try_emplace whose constructor throws cannot be observed afterwards: in
\* every interleaving, each try_emplace and try_pop returns, and each try_pop
\* yields, what it does in the run in which the throwing calls were never made.
C7_ThrowIsUnobservable ==
    /\ shadow.cpc = cpc /\ shadow.popRet = popRet /\ shadow.value = value
    /\ ppc = "idle" => shadow.ppc = "idle"
    /\ (ppc = "idle" /\ pushRet # "throw") => shadow.pushRet = pushRet
    /\ (ppc \in {"L64", "L65"} /\ args # ThrowArg) => shadow.ppc = ppc

\* C7 witness: after a throwing try_emplace that refreshed the producer's cache, a
\* push and a pop have succeeded, in an interleaved run.
C7_Witness ==
    /\ mode = "concurrent" /\ life = "live"
    /\ shadow.readIdxCached_ # readIdxCached_
    /\ ppc = "idle" /\ pushRet = "true" /\ cpc = "L120"
    /\ Len(popped) >= 1

\* C8: no slot is constructed over a live element or destroyed when it holds
\* none, and whenever no call is running the number of live elements in the slot
\* storage is the number of successful pushes minus that of successful pops.
C8_LiveIsPushesMinusPops ==
    /\ ~doubleCtor /\ ~doubleDtor
    /\ (life = "live" /\ ppc = "idle" /\ cpc = "idle")
          => Cardinality(LiveSlots) = Len(pushed) - Len(popped)

\* C8 witness: after three pops, two live elements in a region that wraps.
C8_Witness ==
    /\ mode = "concurrent" /\ Quiescent
    /\ Len(popped) = 3 /\ Cardinality(LiveSlots) = 2 /\ writeIdx_ < readIdx_
    /\ popRet = "true" /\ pushRet = "true"

\* C9: ~spscq, run from any state in which no call is running, destroys the
\* elements of the occupied region [readIdx_, writeIdx_) and nothing else, each
\* once; the walk makes one iteration per occupied slot and then ends.
C9_DestructorDestroysOccupiedOnce ==
    life \in {"destroying", "destroyed"} =>
        LET occ == Occupied(size_, dpre.readIdx_, dpre.writeIdx_)
        IN  /\ ~doubleDtor
            /\ occ = {i \in DOMAIN data_ : dpre.data_[i] # Raw}
            /\ \A i \in 1..Len(dtorLog) :
                  /\ dtorLog[i] \in occ
                  /\ \A j \in 1..Len(dtorLog) : dtorLog[j] = dtorLog[i] => j = i
            /\ \A i \in DOMAIN data_ \ occ : data_[i] = dpre.data_[i]
            /\ life = "destroying" =>
                  Len(dtorLog) + ((w - r) % size_) = Cardinality(occ)
            /\ life = "destroyed" =>
                  /\ {dtorLog[i] : i \in 1..Len(dtorLog)} = occ
                  /\ LiveSlots = {}

\* C9 witness: a queue of size 4 destroyed with slots 3 and 0 occupied.
C9_Witness ==
    /\ life = "destroyed" /\ size_ = 4 /\ dtorLog = <<3, 0>>

\* C9 witness for the largest region: size_ - 1 elements destroyed.
C9_WitnessFull == life = "destroyed" /\ Len(dtorLog) = size_ - 1 /\ size_ = 4

\* C10: called when no try_emplace or try_pop is running, size() returns the
\* number of successful pushes minus that of successful pops and empty() returns
\* true exactly when that number is 0.
C10_SizeAndEmptyWhenQuiescent ==
    [][/\ (opc = "size_L142" /\ opc' = "idle")
            => sizeRet' = Len(pushed) - Len(popped)
       /\ (opc \in {"empty_readIdx_", "empty_writeIdx_"} /\ opc' = "idle")
            => (emptyRet' = "true" <=> Len(pushed) = Len(popped))]_vars

\* C10 witness: size() has returned 3 on a queue of size 4 whose write cursor is
\* below its read cursor, and empty() has returned false.
C10_Witness ==
    /\ mode = "sequential" /\ Quiescent /\ size_ = 4
    /\ writeIdx_ < readIdx_ /\ Len(pushed) - Len(popped) = 3
    /\ sizeRet = 3 /\ emptyRet = "false"

\* No call has begun on the queue since its constructor ran.
JustConstructed ==
    /\ life \in {"live", "invalid_argument"}
    /\ ppc = "idle" /\ cpc = "idle" /\ opc = "idle"
    /\ pushRet = "none" /\ popRet = "none" /\ sizeRet = NoSize /\ emptyRet = "none"

\* C13: the constructor throws std::invalid_argument exactly for size 0, and then
\* no storage is allocated and no operation of the queue can ever be invoked;
\* for a size above 0 the fresh queue has both cursors and both cursor caches at
\* 0 and size_ slots of storage, none of them holding a constructed element.
C13_ConstructorOutcome ==
    /\ (life = "invalid_argument") <=> (size_ = 0)
    /\ life = "invalid_argument" => DOMAIN data_ = {} /\ ~ENABLED SeqNext
    /\ JustConstructed /\ size_ > 0 =>
          /\ life = "live"
          /\ readIdx_ = 0 /\ writeIdx_ = 0
          /\ readIdxCached_ = 0 /\ writeIdxCached_ = 0
          /\ DOMAIN data_ = 0..(size_ - 1)
          /\ \A i \in DOMAIN data_ : data_[i] = Raw

\* The constructor has thrown for size 0.
C13_Witness == life = "invalid_argument" /\ size_ = 0 /\ JustConstructed

\* The constructor has returned a queue of the largest size.
C13_WitnessConstructed == life = "live" /\ size_ = MaxSize /\ JustConstructed

\* C14 as stated: in every reachable state of a live queue, the states inside a
\* running try_emplace and try_pop included, the slots holding a live element
\* are exactly the circular index range [readIdx_, writeIdx_).
C14_LiveSlotsAreTheCursorRange ==
    life = "live" => LiveSlots = Occupied(size_, readIdx_, writeIdx_)

\* The slot a running try_emplace has constructed and not yet published, and
\* the slot a running try_pop has destroyed and not yet released.
Unpublished == IF ppc = "L65" THEN {writeIdx} ELSE {}
Unreleased == IF cpc = "L120" THEN {readIdx} ELSE {}

\* C14: in every reachable state of a live queue the slots holding a live
\* element are the circular range [readIdx_, writeIdx_), plus the slot at
\* writeIdx_ while try_emplace is between line 64 and line 65, minus the slot at
\* readIdx_ while try_pop is between line 118 and line 120; every other slot
\* holds no live element.
C14_LiveSlotsFollowTheCursors ==
    life = "live" =>
      /\ LiveSlots = (Occupied(size_, readIdx_, writeIdx_) \cup Unpublished) \ Unreleased
      /\ Unpublished \subseteq {writeIdx_}
      /\ Unreleased \subseteq {readIdx_}
      /\ Unpublished \cap Occupied(size_, readIdx_, writeIdx_) = {}
      /\ Unreleased \subseteq Occupied(size_, readIdx_, writeIdx_)

\* Both threads are inside their calls: one slot constructed and unpublished,
\* another destroyed and unreleased, with a published element in between.
C14_Witness ==
    /\ life = "live" /\ ppc = "L65" /\ cpc = "L120"
    /\ Cardinality(LiveSlots) = 2
    /\ Cardinality(Occupied(size_, readIdx_, writeIdx_)) = 2
    /\ LiveSlots # Occupied(size_, readIdx_, writeIdx_)

\* The slot the producer's next step constructs into (line 64), and the slot
\* the consumer's next step moves out of (line 117) or destroys (line 118).
ProducerSlot == IF ppc = "L64" THEN {writeIdx} ELSE {}
ConsumerSlot == IF cpc \in {"L117", "L118"} THEN {readIdx} ELSE {}

\* C15: in every interleaving of one producer and one consumer, the producer
\* is never about to construct into the slot the consumer is about to move out
\* of or destroy; the slot the producer constructs into holds no live element;
\* the slot the consumer moves out of and destroys holds a live element that
\* the producer has already published; no element is constructed or destroyed
\* twice.
C15_SlotAccessIsRaceFree ==
    life = "live" =>
      /\ ProducerSlot \cap ConsumerSlot = {}
      /\ \A i \in ProducerSlot : data_[i] = Raw
      /\ \A i \in ConsumerSlot :
            data_[i] # Raw /\ i \in Occupied(size_, readIdx_, writeIdx_)
      /\ ~doubleCtor /\ ~doubleDtor

\* The producer is about to construct while the consumer is about to destroy, on
\* neighbouring slots of a queue whose cursors have wrapped.
C15_Witness ==
    /\ life = "live" /\ ppc = "L64" /\ cpc = "L118"
    /\ size_ = 3 /\ writeIdx = 0 /\ readIdx = 2
    /\ Len(pushed) >= 3

\* C16: in every reachable state of a live queue, under every interleaving,
\* both cursors are in 0..size_-1, the circular distance from readIdx_ to
\* writeIdx_ is the number of elements accepted and not yet popped, that number
\* is at most size_ - 1, and readIdx_ = writeIdx_ only when it is 0.
C16_CursorsInRangeOneSlotReserved ==
    life = "live" =>
      /\ readIdx_ \in 0..(size_ - 1)
      /\ writeIdx_ \in 0..(size_ - 1)
      /\ (writeIdx_ - readIdx_) % size_ = Elements
      /\ Elements <= size_ - 1
      /\ Cardinality(Occupied(size_, readIdx_, writeIdx_)) < size_
      /\ readIdx_ = writeIdx_ => Elements = 0 /\ fifo = <<>>

\* A full queue of the largest size whose cursors have wrapped.
C16_Witness ==
    /\ life = "live" /\ size_ = MaxSize
    /\ Elements = size_ - 1
    /\ writeIdx_ < readIdx_
    /\ pushRet = "false"

\* C19: in every interleaving, try_emplace returns false only from its acquire
\* load of readIdx_ (line 57) and only if the queue holds size_ - 1 elements at
\* that instant, and try_pop returns false only from its acquire load of
\* writeIdx_ (line 110) and only if the queue holds no element at that instant,
\* whatever the cursor caches held when the call began.
C19_NoSpuriousFailure ==
    [][/\ (ppc # "idle" /\ ppc' = "idle" /\ pushRet' = "false") =>
             ppc = "L57" /\ Elements = size_ - 1
       /\ (cpc # "idle" /\ cpc' = "idle" /\ popRet' = "false") =>
             cpc = "L110" /\ Elements = 0]_vars

\* try_emplace has returned false on a full queue while the consumer is inside
\* try_pop, and the last try_pop before that returned true.
C19_Witness ==
    /\ life = "live" /\ size_ = 3
    /\ ppc = "idle" /\ pushRet = "false"
    /\ cpc = "L120" /\ popRet = "true"
    /\ Elements = size_ - 1

\* The circular distance from cursor a to cursor b.
Distance(a, b) == (b - a) % size_

CachesConservative ==
    life = "live" =>
      /\ Distance(readIdxCached_, writeIdx_) >= Distance(readIdx_, writeIdx_)
      /\ Distance(readIdx_, writeIdxCached_) <= Distance(readIdx_, writeIdx_)

Joined ==
    /\ ppc = "idle" /\ cpc = "idle"
    /\ Len(pushed) = num_elements /\ Len(popped) = num_elements

\* C11: with a storage of at least 2 slots and any number num_elements of
\* values, if each thread that can take a step eventually takes one, the
\* producer's and the consumer's retry loops both finish, and then the popped
\* sequence is the pushed sequence.
C11_RoundTripTerminates ==
    (life = "live" /\ size_ >= 2) ~> (Joined /\ popped = pushed)

\* The round trip of MaxPush values through the smallest usable queue has
\* finished.
C11_Witness ==
    /\ mode = "roundtrip" /\ size_ = 2 /\ num_elements = MaxPush
    /\ Joined /\ popped = pushed /\ Len(popped) = MaxPush
    /\ pushRet = "true" /\ popRet = "true"

\* C12: a running call of try_emplace, try_pop, size or empty has taken at most
\* 3, 4 and 1 of the calling thread's own steps, and after that many its next
\* step is the one that returns (line 65, line 120, the second load); in every
\* reachable state, the other threads being anywhere inside their own calls, the
\* next step of a running call can be taken: no step waits for another thread.
C12_OperationsAreNonBlocking ==
    /\ psteps <= 3 /\ (psteps = 3 => ppc = "L65") /\ (ppc = "idle" <=> psteps = 0)
    /\ csteps <= 4 /\ (csteps = 4 => cpc = "L120") /\ (cpc = "idle" <=> csteps = 0)
    /\ osteps <= 1 /\ (opc = "idle" <=> osteps = 0)
    /\ ppc # "idle" => ENABLED Producer
    /\ cpc # "idle" => ENABLED Consumer
    /\ opc # "idle" => ENABLED Observer

\* try_emplace has returned false on a full queue after its two steps, while the
\* consumer is stopped inside try_pop and the third thread inside size().
C12_Witness ==
    /\ mode = "observed" /\ life = "live" /\ size_ = 2
    /\ ppc = "idle" /\ pushRet = "false"
    /\ cpc = "L118" /\ opc = "size_L142"

\* C17: size() returns the distance from the readIdx_ it loaded at line 141 to
\* the writeIdx_ it loads at line 142, which is the number of elements in the
\* queue at its return plus the number of try_pop calls that succeeded between
\* the two loads, modulo size_: a value the queue need not have held at any
\* instant of the call.
C17_SizeMixesTwoInstants ==
    [][(opc = "size_L142" /\ opc' = "idle") =>
          /\ sizeRet' = (Elements + oPops) % size_
          /\ sizeRet' \in 0..(size_ - 1)]_vars

\* size() has returned 3 on a queue of size 4 that held 0 or 1 element at every
\* instant between the call and the return.
C17_Witness ==
    /\ mode = "observed" /\ life = "live" /\ size_ = 4
    /\ opc = "idle" /\ emptyRet = "none"
    /\ sizeRet = 3
    /\ oSeen \subseteq {0, 1}
    /\ sizeRet \notin oSeen

\* C18: for every power of two N and every index i in 0..N-1 the masked
\* increment (i + 1) & (N - 1) equals the conditional reset; an rbuffer<N> and an
\* rbuffer(N) given the same push and pop calls return the same booleans and
\* the same popped values and stay field for field equal, and both behave as a
\* FIFO bounded to N - 1 elements.
C18_MaskEqualsConditionalReset ==
    /\ IsPowerOfTwo(rb.N)
    /\ \A i \in 0..(rb.N - 1) : rbuffer_N_next(rb.N, i) = rbuffer_next(rb.N, i)
    /\ rb.maskRet = rb.condRet /\ rb.maskValue = rb.condValue
    /\ rb.mask = rb.cond
    /\ rb.maskRet = rb.absRet /\ rb.maskValue = rb.absValue
    /\ Len(rb.fifo) <= rb.N - 1
    /\ Len(rb.fifo) = (rb.mask.writeIdx_ - rb.mask.readIdx_) % rb.N

\* Both rbuffers of the largest size are full after their cursors wrapped, the
\* last push was rejected by both and the last pop gave both the first value.
C18_Witness ==
    /\ mode = "rbuffer" /\ rb.N = 2^MaxLog
    /\ Len(rb.fifo) = rb.N - 1
    /\ rb.maskRet = "false" /\ rb.condRet = "false"
    /\ rb.mask.writeIdx_ < rb.mask.readIdx_
    /\ rb.maskValue = 1 /\ rb.condValue = 1
====
